---- MODULE Spec2Model ----
(***************************************************************************)
(* Model of expr/root.go: the root expression RootExpr, its staged walk    *)
(* WalkSets, Validate and HTTPSchemes.                                     *)
(*                                                                         *)
(* The registry is the state: API (nil or an API node holding the HTTP and *)
(* gRPC service lists and the servers), Types, ResultTypes and Services.   *)
(* WalkSets is a sequence of ten steps, one per call of the walk callback; *)
(* each step is the code that runs between the previous call of the        *)
(* callback and this one, the call included.  The callback is external: it *)
(* receives the batch and either succeeds or reports an evaluation error.  *)
(* WalkSets uses no result of the callback, so the outcome is observed in  *)
(* failedAt only.                                                          *)
(***************************************************************************)
EXTENDS Integers, Sequences, FiniteSets, TLC

VARIABLES
    API,          \* r.API: the API node (node = "nil" when r.API == nil)
    Types,        \* r.Types
    ResultTypes,  \* r.ResultTypes
    Services,     \* r.Services
    pc,           \* 0: not in WalkSets; k in 1..9: the callback of stage k has returned
    methods,      \* local of WalkSets
    endpoints,    \* local of WalkSets
    servers,      \* local of WalkSets
    grpcms,       \* local of WalkSets
    backing,      \* the array behind the slice endpoints (its length is the capacity)
    calls,        \* the calls of the callback in the current (or last) walk
    failedAt,     \* first stage of that walk at which the callback failed, 0 if none
    walks,        \* number of completed calls of WalkSets
    atEntry,      \* history: the registry at the entry of the current (or last) walk
    prevCalls,    \* history: the calls of the callback in the walk before the current one
    ret,          \* result of the last operation, when it was Validate or HTTPSchemes
    fault,        \* TRUE once an operation has dereferenced a nil pointer (panic)
    metaMaps,     \* the MetaExpr map objects: metaMaps[i] maps each key to a slice
    slices,       \* the arrays behind the value slices: slices[i] is a list of strings
    d,            \* the map returned by Dup (index into metaMaps), 0 before Dup
    metaOps,      \* history: the changes made through d since Dup
    mAtDup        \* history: the content of m when Dup was called

registry == <<API, Types, ResultTypes, Services>>
locals   == <<methods, endpoints, servers, grpcms, backing>>
meta     == <<metaMaps, slices, d, metaOps, mAtDup>>
vars     == <<API, Types, ResultTypes, Services, pc, methods, endpoints, servers,
              grpcms, backing, calls, failedAt, walks, atEntry, prevCalls, ret, fault,
              metaMaps, slices, d, metaOps, mAtDup>>

\* The registry as one value.
Registry == [API |-> API, Types |-> Types, ResultTypes |-> ResultTypes,
             Services |-> Services]

(***************************************************************************)
(* Bounds of the model.                                                    *)
(***************************************************************************)
MaxLen   == 2   \* longest service / transport service list of Init
MaxSvcs  == 3   \* longest transport service list of InitSort
MaxWalks == 2   \* calls of WalkSets in one behaviour
MaxServers == 2 \* longest server list of InitServers
MaxTypes == 2   \* longest user type / result type list of InitLookup
MaxVals  == 2   \* longest value list of a key of InitMeta
MaxMetaOps == 2 \* changes made through the duplicate in one behaviour

(***************************************************************************)
(* Nodes.                                                                  *)
(***************************************************************************)
StageNames == <<"API", "Types", "ResultTypes", "Services", "Methods",
                "HTTPServices", "HTTPEndpoints", "FileServers",
                "GRPCServices", "GRPCEndpoints">>

NilAPI == [node |-> "nil", HTTP |-> [Services |-> << >>],
           GRPC |-> [Services |-> << >>], Servers |-> << >>]

\* NewAPIExpr("API", func() {}): a fresh API node with nothing declared in it.
NewAPIExpr == [node |-> "default", HTTP |-> [Services |-> << >>],
               GRPC |-> [Services |-> << >>], Servers |-> << >>]

\* HTTPServiceExpr.Name() / GRPCServiceExpr.Name(): the name of the service the
\* transport service is bound to.
Name(svc) == svc.Name

\* UserType.Attribute(): the attribute node of a user type.
Attribute(t) == t.AttributeExpr

S1 == [Name |-> "S1", Methods |-> <<"M1", "M2">>]
S2 == [Name |-> "S2", Methods |-> <<"M3">>]
S3 == [Name |-> "S3", Methods |-> << >>]

T1 == [Name |-> "T1", AttributeExpr |-> "attrT1"]
T2 == [Name |-> "T2", AttributeExpr |-> "attrT2"]
R1 == [Name |-> "R1", AttributeExpr |-> "attrR1"]
\* T3 is a second user type named "T1"; R2 is a result type named "T1".
T3 == [Name |-> "T1", AttributeExpr |-> "attrT3"]
R2 == [Name |-> "T1", AttributeExpr |-> "attrR2"]
\* The nil UserType.
NilType == [Name |-> "", AttributeExpr |-> "nil"]

\* H1 is the HTTP service of S1 and has S2 as parent; H2 is the HTTP service of S2.
H1 == [id |-> "H1", Name |-> "S1", ParentName |-> "S2",
       HTTPEndpoints |-> <<"he1">>, FileServers |-> <<"fs1">>]
H2 == [id |-> "H2", Name |-> "S2", ParentName |-> "",
       HTTPEndpoints |-> <<"he2", "he3">>, FileServers |-> << >>]

G1 == [id |-> "G1", Name |-> "S1", ParentName |-> "S2",
       GRPCEndpoints |-> <<"ge1", "ge2">>]
G2 == [id |-> "G2", Name |-> "S2", ParentName |-> "",
       GRPCEndpoints |-> <<"ge3">>]

\* The sequences without repetition over S, of length at most n.
InjSeqs(S, n) ==
    UNION { { s \in [1..k -> S] : \A i, j \in 1..k : s[i] = s[j] => i = j } : k \in 0..n }

(***************************************************************************)
(* sort.SliceStable on a slice of fewer than 20 elements is one insertion  *)
(* sort (sort.stable: blockSize 20, insertionSort(data, 0, n)); less and   *)
(* swap both index the slice being sorted.                                 *)
(***************************************************************************)
\* less(i, j) of lines 108-113 / 131-136, on the slice s (1-based here).
LessAnyParent(s, i, j) == s[j].ParentName # ""
LessSwapped(s, i, j) == s[i].ParentName = Name(s[j])
Less(s, i, j) == s[j].ParentName = Name(s[i])

SwapOverwrite(s, i, j) == [s EXCEPT ![i] = s[j]]
Swap(s, i, j) == [s EXCEPT ![i] = s[j], ![j] = s[i]]

RECURSIVE InsertLeft(_, _)
\* for j := i; j > a && less(j, j-1); j-- { swap(j, j-1) }
InsertLeft(s, j) ==
    IF j > 1 /\ Less(s, j, j - 1)
    THEN InsertLeft(Swap(s, j, j - 1), j - 1)
    ELSE s

RECURSIVE InsertionSort(_, _)
\* for i := a + 1; i < b; i++ { ... }
InsertionSort(s, i) ==
    IF i <= Len(s) THEN InsertionSort(InsertLeft(s, i), i + 1) ELSE s

SliceStable(s) == InsertionSort(s, 2)

(***************************************************************************)
(* The flattening loops of WalkSets.                                       *)
(***************************************************************************)
RECURSIVE Concat(_, _)
\* the concatenation of field(s[1]), field(s[2]), ...
Concat(s, field) ==
    IF s = << >> THEN << >> ELSE s[1][field] \o Concat(Tail(s), field)

RECURSIVE ConcatRev(_, _)
ConcatRev(s, field) ==
    IF s = << >> THEN << >> ELSE ConcatRev(Tail(s), field) \o s[1][field]

\* lines 97-102: methods = append(methods, e) for each service, each method
FlattenMethodsRev(svcs) == ConcatRev(svcs, "Methods")
FlattenMethods(svcs) == Concat(svcs, "Methods")

\* lines 116-124
FlattenHTTPEndpoints(svcs) == Concat(svcs, "HTTPEndpoints")
FlattenFileServers(svcs) == Concat(svcs, "FileServers")

RECURSIVE FlattenGRPC(_, _, _)
\* lines 137-143: grpcms = append(endpoints, e) for each service, each endpoint:
\* every iteration restarts from the HTTP endpoints, so the last one wins.
FlattenGRPC(acc, eps, svcs) ==
    IF svcs = << >> THEN acc
    ELSE LET es == svcs[1].GRPCEndpoints
         IN  FlattenGRPC(IF es = << >> THEN acc ELSE eps \o <<es[Len(es)]>>,
                         eps, Tail(svcs))

RECURSIVE GoCap(_, _)
\* Capacity of a slice of n elements built by append from nil, one element at a
\* time: the capacity doubles (1, 2, 4, 8, ...).
GoCap(n, c) == IF n <= c THEN c ELSE GoCap(n, IF c = 0 THEN 1 ELSE 2 * c)

\* The array behind a slice built by append from nil; unused slots hold nil.
ArrayOf(s) == [i \in 1..GoCap(Len(s), 0) |-> IF i <= Len(s) THEN s[i] ELSE "nil"]

\* append(s, e) where s has n elements in the array arr: with spare capacity
\* the element is written into arr, otherwise into a new array.
AppendInPlaceClobber(arr, n, e) == IF n >= 1 THEN [arr EXCEPT ![n] = e] ELSE arr
AppendInPlace(arr, n, e) == IF n < Len(arr) THEN [arr EXCEPT ![n + 1] = e] ELSE arr

RECURSIVE AppendsInPlace(_, _, _)
\* lines 138-143: the effect of every append(endpoints, e) on the array of endpoints
AppendsInPlace(arr, n, svcs) ==
    IF svcs = << >> THEN arr
    ELSE LET es == svcs[1].GRPCEndpoints
         IN  AppendsInPlace(IF es = << >> THEN arr ELSE AppendInPlace(arr, n, es[Len(es)]),
                            n, Tail(svcs))

(***************************************************************************)
(* The callback.                                                           *)
(***************************************************************************)
\* walk(batch) at stage k; ok is what the callback made of the batch.
Walk(k, batch, ok) ==
    /\ calls' = Append(calls, [stage |-> StageNames[k], batch |-> batch])
    /\ failedAt' = IF failedAt = 0 /\ ~ok THEN k ELSE failedAt

NoRet == [op |-> "none", verr |-> << >>, schemes |-> << >>, name |-> "", node |-> NilType]

\* The empty MetaExpr.
EmptyMap == [k \in {} |-> 0]

\* m, the receiver of Dup: the first map object.
m == 1

\* The content of a map object: each key with its list of values.
Content(mp) == [k \in DOMAIN mp |-> slices[mp[k]]]

(***************************************************************************)
(* Initial states: the registry as the DSL left it.                        *)
(***************************************************************************)
InitRest ==
    /\ pc = 0
    /\ methods = << >> /\ endpoints = << >> /\ servers = << >> /\ grpcms = << >>
    /\ backing = << >>
    /\ calls = << >>
    /\ prevCalls = << >>
    /\ failedAt = 0
    /\ walks = 0
    /\ atEntry = Registry
    /\ ret = NoRet
    /\ fault = FALSE

\* No meta data.
InitNoMeta ==
    /\ metaMaps = <<EmptyMap>>
    /\ slices = << >>
    /\ d = 0
    /\ metaOps = << >>
    /\ mAtDup = EmptyMap

DeclaredAPIs ==
    { [node |-> "declared", HTTP |-> [Services |-> h], GRPC |-> [Services |-> g],
       Servers |-> << >>] :
        h \in InjSeqs({H1, H2}, MaxLen), g \in InjSeqs({G1, G2}, MaxLen) }

Init ==
    /\ API \in {NilAPI} \cup DeclaredAPIs
    /\ Services \in InjSeqs({S1, S2, S3}, MaxLen)
    /\ \E full \in BOOLEAN :
         /\ Types = IF full THEN <<T1, T2>> ELSE << >>
         /\ ResultTypes = IF full THEN <<R1>> ELSE << >>
    /\ InitRest
    /\ InitNoMeta

(***************************************************************************)
(* Initial states of SpecSort: every list of up to MaxSvcs transport       *)
(* services with unique names, each with no parent or with another service *)
(* of the list as parent.  The sort compares names for equality only, so   *)
(* the services are named by their initial position (the k-th is           *)
(* SortNames[k]) and the parent names range over all choices: every order  *)
(* of every parent relation occurs.  Every service is bound to both        *)
(* transports.                                                             *)
(***************************************************************************)
SortNames == <<"A", "B", "C", "D", "E">>
HTTPEndpointOf == [A |-> "heA", B |-> "heB", C |-> "heC", D |-> "heD", E |-> "heE"]
GRPCEndpointOf == [A |-> "geA", B |-> "geB", C |-> "geC", D |-> "geD", E |-> "geE"]

\* The (name, parent name) lists of length n.
SortShapes(n) ==
    LET names == { SortNames[k] : k \in 1..n }
    IN  { s \in [1..n -> names \X ({""} \cup names)] :
            /\ \A i \in 1..n : s[i][1] = SortNames[i]
            /\ \A i \in 1..n : s[i][2] # s[i][1] }

HTTPOf(shape) ==
    [i \in 1..Len(shape) |->
        [id |-> shape[i][1], Name |-> shape[i][1], ParentName |-> shape[i][2],
         HTTPEndpoints |-> <<HTTPEndpointOf[shape[i][1]]>>, FileServers |-> << >>]]

GRPCOf(shape) ==
    [i \in 1..Len(shape) |->
        [id |-> shape[i][1], Name |-> shape[i][1], ParentName |-> shape[i][2],
         GRPCEndpoints |-> <<GRPCEndpointOf[shape[i][1]]>>]]

InitSort ==
    /\ \E n \in 0..MaxSvcs : \E shape \in SortShapes(n) :
         API = [node |-> "declared", HTTP |-> [Services |-> HTTPOf(shape)],
                GRPC |-> [Services |-> GRPCOf(shape)], Servers |-> << >>]
    /\ Services = << >>
    /\ Types = << >>
    /\ ResultTypes = << >>
    /\ InitRest
    /\ InitNoMeta

(***************************************************************************)
(* WalkSets.                                                               *)
(***************************************************************************)
Idle == pc = 0 /\ ~fault

\* lines 73-75
EnsureAPIAlways(api) == NewAPIExpr
EnsureAPI(api) == IF api.node = "nil" THEN NewAPIExpr ELSE api

\* lines 73-78
WalkAPI ==
    /\ Idle /\ walks < MaxWalks
    /\ API' = EnsureAPI(API)
    /\ \E ok \in BOOLEAN :
         /\ calls' = <<[stage |-> StageNames[1], batch |-> <<API'>>]>>
         /\ failedAt' = IF ok THEN 0 ELSE 1
    /\ pc' = 1
    /\ methods' = << >> /\ endpoints' = << >> /\ servers' = << >> /\ grpcms' = << >>
    /\ backing' = << >>
    /\ ret' = NoRet
    /\ atEntry' = Registry
    /\ prevCalls' = calls
    /\ UNCHANGED <<Types, ResultTypes, Services, walks, fault, meta>>

\* lines 80-85
WalkTypes ==
    /\ pc = 1
    /\ \E ok \in BOOLEAN :
         Walk(2, [i \in 1..Len(Types) |-> Attribute(Types[i])], ok)
    /\ pc' = 2
    /\ UNCHANGED <<registry, locals, walks, atEntry, prevCalls, ret, fault, meta>>

\* lines 87-92
WalkResultTypes ==
    /\ pc = 2
    /\ \E ok \in BOOLEAN : Walk(3, ResultTypes, ok)
    /\ pc' = 3
    /\ UNCHANGED <<registry, locals, walks, atEntry, prevCalls, ret, fault, meta>>

\* lines 94-103
WalkServices ==
    /\ pc = 3
    /\ methods' = FlattenMethods(Services)
    /\ \E ok \in BOOLEAN : Walk(4, Services, ok)
    /\ pc' = 4
    /\ UNCHANGED <<registry, endpoints, servers, grpcms, backing, walks, atEntry, prevCalls, ret, fault, meta>>

\* A walk that skips the callback for an empty methods batch.
WalkMethodsSkipEmpty ==
    /\ pc = 4
    /\ IF methods = << >>
       THEN UNCHANGED <<calls, failedAt>>
       ELSE \E ok \in BOOLEAN : Walk(5, methods, ok)
    /\ pc' = 5
    /\ UNCHANGED <<registry, locals, walks, atEntry, prevCalls, ret, fault, meta>>

\* line 104
WalkMethods ==
    /\ pc = 4
    /\ \E ok \in BOOLEAN : Walk(5, methods, ok)
    /\ pc' = 5
    /\ UNCHANGED <<registry, locals, walks, atEntry, prevCalls, ret, fault, meta>>

\* A walk that collects the endpoints and file servers before it sorts.
WalkHTTPServicesFlattenFirst ==
    /\ pc = 5
    /\ LET sorted == SliceStable(API.HTTP.Services)
       IN  /\ API' = [API EXCEPT !.HTTP.Services = sorted]
           /\ endpoints' = FlattenHTTPEndpoints(API.HTTP.Services)
           /\ servers' = FlattenFileServers(API.HTTP.Services)
           /\ backing' = ArrayOf(FlattenHTTPEndpoints(API.HTTP.Services))
           /\ \E ok \in BOOLEAN : Walk(6, sorted, ok)
    /\ pc' = 6
    /\ UNCHANGED <<Types, ResultTypes, Services, methods, grpcms, walks, atEntry, prevCalls, ret, fault, meta>>

\* lines 106-125
WalkHTTPServices ==
    /\ pc = 5
    /\ LET sorted == SliceStable(API.HTTP.Services)
       IN  /\ API' = [API EXCEPT !.HTTP.Services = sorted]
           /\ endpoints' = FlattenHTTPEndpoints(sorted)
           /\ servers' = FlattenFileServers(sorted)
           /\ backing' = ArrayOf(FlattenHTTPEndpoints(sorted))
           /\ \E ok \in BOOLEAN : Walk(6, sorted, ok)
    /\ pc' = 6
    /\ UNCHANGED <<Types, ResultTypes, Services, methods, grpcms, walks, atEntry, prevCalls, ret, fault, meta>>

\* line 126
WalkHTTPEndpoints ==
    /\ pc = 6
    /\ \E ok \in BOOLEAN : Walk(7, endpoints, ok)
    /\ pc' = 7
    /\ UNCHANGED <<registry, locals, walks, atEntry, prevCalls, ret, fault, meta>>

\* line 127
WalkFileServers ==
    /\ pc = 7
    /\ \E ok \in BOOLEAN : Walk(8, servers, ok)
    /\ pc' = 8
    /\ UNCHANGED <<registry, locals, walks, atEntry, prevCalls, ret, fault, meta>>

\* lines 129-144
WalkGRPCServices ==
    /\ pc = 8
    /\ LET sorted == SliceStable(API.GRPC.Services)
       IN  /\ API' = [API EXCEPT !.GRPC.Services = sorted]
           /\ grpcms' = FlattenGRPC(<< >>, endpoints, sorted)
           /\ backing' = AppendsInPlace(backing, Len(endpoints), sorted)
           /\ \E ok \in BOOLEAN : Walk(9, sorted, ok)
    /\ pc' = 9
    /\ UNCHANGED <<Types, ResultTypes, Services, methods, endpoints, servers,
                   walks, atEntry, prevCalls, ret, fault, meta>>

\* lines 145-146
WalkGRPCEndpoints ==
    /\ pc = 9
    /\ \E ok \in BOOLEAN : Walk(10, grpcms, ok)
    /\ pc' = 0
    /\ walks' = walks + 1
    /\ UNCHANGED <<registry, locals, atEntry, prevCalls, ret, fault, meta>>

(***************************************************************************)
(* Validate and HTTPSchemes.                                               *)
(***************************************************************************)
MissingAPI == [expr |-> "RootExpr", msg |-> "Missing API declaration"]

\* lines 233-239
ValidationErrorsInverted == IF API.node = "nil" THEN << >> ELSE <<MissingAPI>>
ValidationErrors == IF API.node = "nil" THEN <<MissingAPI>> ELSE << >>

Validate ==
    /\ Idle
    /\ ret' = [NoRet EXCEPT !.op = "Validate", !.verr = ValidationErrors]
    /\ UNCHANGED <<registry, pc, locals, calls, failedAt, walks, atEntry, prevCalls, fault, meta>>

\* net/url.Parse on the server URLs of the model: a nil URL and an error for a
\* URL that does not parse, else the URL with its scheme.
URLParse(url) ==
    CASE url = "http://a.example"  -> [err |-> FALSE, Scheme |-> "http"]
      [] url = "https://b.example" -> [err |-> FALSE, Scheme |-> "https"]
      [] url = "http://c.example"  -> [err |-> FALSE, Scheme |-> "http"]
      [] url = "/relative"         -> [err |-> FALSE, Scheme |-> ""]
      [] url = ":missing-scheme"   -> [err |-> TRUE, Scheme |-> "nil"]
      [] OTHER                     -> [err |-> TRUE, Scheme |-> "nil"]

URLs == {"http://a.example", "https://b.example", "http://c.example", "/relative",
         ":missing-scheme"}

\* The order of sort.Strings on the schemes of the model.
SchemeRank == [s \in {"", "http", "https"} |->
                 IF s = "" THEN 0 ELSE IF s = "http" THEN 1 ELSE 2]

RECURSIVE SortStrings(_)
\* sort.Strings on a set of distinct strings
SortStrings(S) ==
    IF S = {} THEN << >>
    ELSE LET least == CHOOSE x \in S : \A y \in S : SchemeRank[x] <= SchemeRank[y]
         IN  <<least>> \o SortStrings(S \ {least})

RECURSIVE CollectSchemes(_, _)
\* lines 208-213: the loop over r.API.Servers.  A URL that fails to parse leaves
\* u nil, and u.Scheme then dereferences it: the result is "panic".
CollectSchemes(srvs, schemes) ==
    IF srvs = << >> THEN [panic |-> FALSE, schemes |-> schemes]
    ELSE LET u == URLParse(srvs[1].URL)
         IN  IF u.err
             THEN [panic |-> TRUE, schemes |-> schemes]
             ELSE CollectSchemes(Tail(srvs), schemes)

\* lines 207-225; r.API.Servers dereferences r.API.
HTTPSchemes ==
    /\ Idle
    /\ IF API.node = "nil"
       THEN fault' = TRUE /\ ret' = NoRet
       ELSE LET c == CollectSchemes(API.Servers, {})
            IN  IF c.panic
                THEN fault' = TRUE /\ ret' = NoRet
                ELSE /\ fault' = FALSE
                     /\ ret' = [NoRet EXCEPT !.op = "HTTPSchemes",
                                                !.schemes = SortStrings(c.schemes)]
    /\ UNCHANGED <<registry, pc, locals, calls, failedAt, walks, atEntry, prevCalls, meta>>

(***************************************************************************)
(* Initial states of SpecServers: an API with up to MaxServers servers.    *)
(***************************************************************************)
ServerLists ==
    UNION { [1..n -> { [URL |-> u] : u \in URLs }] : n \in 0..MaxServers }

InitServers ==
    /\ \/ API = NilAPI
       \/ \E srvs \in ServerLists :
            API = [node |-> "declared", HTTP |-> [Services |-> << >>],
                   GRPC |-> [Services |-> << >>], Servers |-> srvs]
    /\ Services = << >>
    /\ Types = << >>
    /\ ResultTypes = << >>
    /\ InitRest
    /\ InitNoMeta

(***************************************************************************)
(* UserType.                                                               *)
(***************************************************************************)
RECURSIVE FirstNamed(_, _)
\* for _, t := range list { if t.Name() == name { return t } }
FirstNamed(list, name) ==
    IF list = << >> THEN NilType
    ELSE IF Name(list[1]) = name THEN list[1]
    ELSE FirstNamed(Tail(list), name)

\* lines 160-172
UserTypeOfResultTypesFirst(name) ==
    LET t == FirstNamed(ResultTypes, name)
    IN  IF t # NilType THEN t ELSE FirstNamed(Types, name)
UserTypeOf(name) ==
    LET t == FirstNamed(Types, name)
    IN  IF t # NilType THEN t ELSE FirstNamed(ResultTypes, name)

LookupNames == {"T1", "T2", "R1", "T9"}

UserType ==
    /\ Idle
    /\ \E name \in LookupNames :
         ret' = [NoRet EXCEPT !.op = "UserType", !.name = name, !.node = UserTypeOf(name)]
    /\ UNCHANGED <<registry, pc, locals, calls, failedAt, walks, atEntry, prevCalls, fault, meta>>

(***************************************************************************)
(* Initial states of SpecLookup: up to MaxTypes user types and result      *)
(* types, with names that repeat within and across the two lists.          *)
(***************************************************************************)
InitLookup ==
    /\ API \in {NilAPI, [NilAPI EXCEPT !.node = "declared"]}
    /\ Services = << >>
    /\ Types \in InjSeqs({T1, T2, T3}, MaxTypes)
    /\ ResultTypes \in InjSeqs({R1, R2}, MaxTypes)
    /\ InitRest
    /\ InitNoMeta

(***************************************************************************)
(* MetaExpr.  A map is an object; its values are slices, each backed by an *)
(* array.  The changes a holder of the duplicate can make are the          *)
(* operations of Go maps and slices.                                       *)
(***************************************************************************)
walker == <<API, Types, ResultTypes, Services, pc, methods, endpoints, servers,
            grpcms, backing, calls, failedAt, walks, atEntry, prevCalls, ret, fault>>

MetaKeys == {"a", "b", "c"}

\* The value lists of key k in the initial maps.
InitValues(k) ==
    LET vals == IF k = "a" THEN {"1", "2"} ELSE {"3"}
    IN  UNION { [1..n -> vals] : n \in 0..MaxVals }

InitMeta ==
    /\ \E present \in SUBSET {"a", "b"} :
       \E content \in [{"a", "b"} -> InitValues("a") \cup InitValues("b")] :
         /\ content["a"] \in InitValues("a") /\ content["b"] \in InitValues("b")
         /\ slices = <<content["a"], content["b"]>>
         /\ metaMaps = <<[k \in present |-> IF k = "a" THEN 1 ELSE 2]>>
    /\ d = 0
    /\ metaOps = << >>
    /\ mAtDup = EmptyMap
    /\ API = NilAPI
    /\ Services = << >> /\ Types = << >> /\ ResultTypes = << >>
    /\ InitRest

\* lines 242-248: the maps after Dup and the map it returns
DupResultAlias == [maps |-> metaMaps, d |-> m]
DupResult ==
    [maps |-> Append(metaMaps, [k \in DOMAIN metaMaps[m] |-> metaMaps[m][k]]),
     d |-> Len(metaMaps) + 1]

Dup ==
    /\ d = 0
    /\ metaMaps' = DupResult.maps
    /\ d' = DupResult.d
    /\ mAtDup' = Content(metaMaps[m])
    /\ UNCHANGED <<slices, metaOps, walker>>

\* d[k] = []string{"new"}: adds the key k or replaces its value list
DupSet ==
    /\ d # 0 /\ Len(metaOps) < MaxMetaOps
    /\ \E k \in MetaKeys :
         /\ slices' = Append(slices, <<"new">>)
         /\ metaMaps' = [metaMaps EXCEPT ![d] =
                [x \in DOMAIN metaMaps[d] \cup {k} |->
                    IF x = k THEN Len(slices) + 1 ELSE metaMaps[d][x]]]
         /\ metaOps' = Append(metaOps, IF k \in DOMAIN metaMaps[d] THEN "replace" ELSE "add")
    /\ UNCHANGED <<d, mAtDup, walker>>

\* delete(d, k)
DupDelete ==
    /\ d # 0 /\ Len(metaOps) < MaxMetaOps
    /\ \E k \in DOMAIN metaMaps[d] :
         metaMaps' = [metaMaps EXCEPT ![d] = [x \in DOMAIN metaMaps[d] \ {k} |-> metaMaps[d][x]]]
    /\ metaOps' = Append(metaOps, "delete")
    /\ UNCHANGED <<slices, d, mAtDup, walker>>

\* d[k][i] = "changed"
DupOverwrite ==
    /\ d # 0 /\ Len(metaOps) < MaxMetaOps
    /\ \E k \in DOMAIN metaMaps[d] : \E i \in 1..Len(slices[metaMaps[d][k]]) :
         slices' = [slices EXCEPT ![metaMaps[d][k]][i] = "changed"]
    /\ metaOps' = Append(metaOps, "overwrite")
    /\ UNCHANGED <<metaMaps, d, mAtDup, walker>>

NextMeta == Dup \/ DupSet \/ DupDelete \/ DupOverwrite

Next ==
    \/ WalkAPI \/ WalkTypes \/ WalkResultTypes \/ WalkServices \/ WalkMethods
    \/ WalkHTTPServices \/ WalkHTTPEndpoints \/ WalkFileServers
    \/ WalkGRPCServices \/ WalkGRPCEndpoints
    \/ Validate \/ HTTPSchemes \/ UserType

Spec == Init /\ [][Next]_vars

SpecSort == InitSort /\ [][Next]_vars

SpecServers == InitServers /\ [][Next]_vars

SpecLookup == InitLookup /\ [][Next]_vars

SpecMeta == InitMeta /\ [][NextMeta]_vars

(***************************************************************************)
(* Helpers of the properties.                                              *)
(***************************************************************************)
WalkDone == pc = 0 /\ walks > 0

\* The batch presented at stage k of the current walk (k <= Len(calls)).
Batch(k) == calls[k].batch

RECURSIVE Offset(_, _)
\* Number of methods of the services before the i-th.
Offset(svcs, i) == IF i <= 1 THEN 0 ELSE Offset(svcs, i - 1) + Len(svcs[i - 1].Methods)

\* t holds the elements of s, each as often as s does.
IsPermutationOf(s, t) ==
    /\ Len(s) = Len(t)
    /\ \A i \in 1..Len(s) :
         Cardinality({ j \in 1..Len(s) : s[j] = s[i] })
             = Cardinality({ j \in 1..Len(t) : t[j] = s[i] })

UniqueNames(s) == \A i, j \in 1..Len(s) : Name(s[i]) = Name(s[j]) => i = j

\* Only one parent/child level: a service that is the parent of another has no parent.
SingleLevel(s) ==
    \A i, j \in 1..Len(s) : s[j].ParentName = Name(s[i]) => s[i].ParentName = ""

ParentsFirst(s) ==
    \A i, j \in 1..Len(s) : s[j].ParentName = Name(s[i]) => i < j

(***************************************************************************)
(* C1: one call of WalkSets invokes the callback exactly ten times, once   *)
(* per stage in the fixed order API, user types, result types, services,   *)
(* methods, HTTP services, HTTP endpoints, HTTP file servers, gRPC         *)
(* services, gRPC endpoints; an empty stage still gets its batch, and      *)
(* stage k is presented only when the k-1 stages before it have returned.  *)
(***************************************************************************)
C1_TenStagesInOrder ==
    /\ Len(calls) <= 10
    /\ \A k \in 1..Len(calls) : calls[k].stage = StageNames[k]
    /\ pc # 0 => Len(calls) = pc
    /\ WalkDone => Len(calls) = 10

\* A finished walk in which the methods, file servers and gRPC stages were empty.
C1_Witness ==
    /\ WalkDone /\ Len(calls) = 10
    /\ Batch(2) = << >> /\ Batch(5) = << >> /\ Batch(8) = << >> /\ Batch(10) = << >>

(***************************************************************************)
(* C2: if the callback fails on the batch of stage k, no stage after k is  *)
(* presented in that walk: the callback is invoked exactly k times.        *)
(***************************************************************************)
C2_FailFast == failedAt # 0 => Len(calls) = failedAt

(***************************************************************************)
(* C3: for HTTP services with unique names and a single parent/child       *)
(* level, in every initial order, the HTTP services batch places each      *)
(* parent before each of its children.                                     *)
(***************************************************************************)
C3_ParentBeforeChild ==
    (Len(calls) >= 6 /\ UniqueNames(Batch(6)) /\ SingleLevel(Batch(6)))
        => ParentsFirst(Batch(6))

(***************************************************************************)
(* C4: the methods batch is presented after the services batch, the        *)
(* services batch is the registry's service list in registry order, and    *)
(* the methods batch is the concatenation of the services' method lists in *)
(* that order.                                                             *)
(***************************************************************************)
C4_MethodsFlattened ==
    /\ Len(calls) >= 4 =>
         /\ calls[4].stage = "Services"
         /\ Batch(4) = Services
    /\ Len(calls) >= 5 =>
         /\ calls[5].stage = "Methods"
         /\ Len(Batch(5)) = Offset(Services, Len(Services) + 1)
         /\ \A i \in 1..Len(Services) : \A k \in 1..Len(Services[i].Methods) :
              Batch(5)[Offset(Services, i) + k] = Services[i].Methods[k]

C4_Witness ==
    /\ Len(calls) >= 5
    /\ Services = <<S2, S1>>
    /\ Batch(5) = <<"M3", "M1", "M2">>

(***************************************************************************)
(* C5: the gRPC endpoints batch is the concatenation of the endpoint lists *)
(* of the gRPC services, in the order of the gRPC services batch of the    *)
(* same walk.                                                              *)
(***************************************************************************)
C5_GRPCEndpointsFlattened ==
    Len(calls) = 10 => Batch(10) = Concat(Batch(9), "GRPCEndpoints")

(***************************************************************************)
(* C6: WalkSets is read-only on the registry: the registry after the walk  *)
(* equals the registry before it.                                          *)
(***************************************************************************)
C6_RegistryUnchanged == WalkDone => Registry = atEntry

(***************************************************************************)
(* C6 as amended: WalkSets leaves Types, ResultTypes, Services and the     *)
(* servers unchanged; it keeps an API node that is set and replaces a nil  *)
(* API by the default node; the HTTP and gRPC service lists hold the same  *)
(* services as at entry, in a possibly different order.                    *)
(***************************************************************************)
C6_RegistryContentKept ==
    /\ Types = atEntry.Types
    /\ ResultTypes = atEntry.ResultTypes
    /\ Services = atEntry.Services
    /\ API.Servers = atEntry.API.Servers
    /\ IF atEntry.API.node = "nil"
       THEN API \in {NilAPI, NewAPIExpr}
       ELSE API.node = atEntry.API.node
    /\ IsPermutationOf(atEntry.API.HTTP.Services, API.HTTP.Services)
    /\ IsPermutationOf(atEntry.API.GRPC.Services, API.GRPC.Services)

\* A finished walk that has reordered both transport service lists.
C6_Witness ==
    /\ WalkDone
    /\ atEntry.API.HTTP.Services = <<H1, H2>> /\ API.HTTP.Services = <<H2, H1>>
    /\ atEntry.API.GRPC.Services = <<G1, G2>> /\ API.GRPC.Services = <<G2, G1>>

(***************************************************************************)
(* C7: once an operation that reads the API has run (WalkSets, Validate,   *)
(* HTTPSchemes), the API is non-nil, and no operation faults on a nil API. *)
(***************************************************************************)
C7_APINonNilAfterAccess ==
    /\ ~fault
    /\ (ret.op # "none" \/ pc # 0 \/ walks > 0) => API.node # "nil"

(***************************************************************************)
(* C8: the first batch of a walk holds exactly one node, which is non-nil  *)
(* and is the node stored as the registry's API; if the API was set at     *)
(* entry it is that node, and the walk does not replace it.                *)
(***************************************************************************)
C8_FirstBatchIsAPI ==
    Len(calls) >= 1 =>
        /\ calls[1].stage = "API"
        /\ Len(Batch(1)) = 1
        /\ Batch(1)[1].node # "nil"
        /\ Batch(1)[1].node = API.node
        /\ atEntry.API.node # "nil" => Batch(1)[1] = atEntry.API

\* A walk on a registry without API: the batch holds the default node.
C8_Witness ==
    /\ WalkDone
    /\ atEntry.API.node = "nil"
    /\ Batch(1) = <<NewAPIExpr>>
    /\ API.node = "default"

(***************************************************************************)
(* C9: Validate returns no failure when the API is set and exactly one     *)
(* failure, the missing API declaration naming the registry, when it is    *)
(* not; so it reports one failure before any walk on a registry without    *)
(* API and none after a WalkSets.                                          *)
(***************************************************************************)
C9_ValidateCountsMissingAPI ==
    ret.op = "Validate" =>
        /\ API.node # "nil" => ret.verr = << >>
        /\ API.node = "nil" =>
             /\ Len(ret.verr) = 1
             /\ ret.verr[1].expr = "RootExpr"
             /\ ret.verr[1].msg = "Missing API declaration"
        /\ (walks = 0 /\ atEntry.API.node = "nil") => Len(ret.verr) = 1
        /\ walks > 0 => Len(ret.verr) = 0

\* Validate after a walk on a registry that had no API.
C9_Witness ==
    /\ ret.op = "Validate" /\ walks > 0
    /\ atEntry.API.node = "nil"
    /\ ret.verr = << >>

(***************************************************************************)
(* C10: services S1 [M1, M2] and S2 [M3], HTTP services registered in the  *)
(* order H1 (parent S2), H2 (no parent): the HTTP services batch is        *)
(* [H2, H1] and the methods batch is [M1, M2, M3].                         *)
(***************************************************************************)
Scenario ==
    /\ atEntry.Services = <<S1, S2>>
    /\ atEntry.API.HTTP.Services = <<H1, H2>>

C10_EndToEnd ==
    /\ (Scenario /\ Len(calls) >= 5) => Batch(5) = <<"M1", "M2", "M3">>
    /\ (Scenario /\ Len(calls) >= 6) => Batch(6) = <<H2, H1>>

C10_Witness ==
    /\ Scenario /\ pc = 6
    /\ Batch(6) = <<H2, H1>>

(***************************************************************************)
(* C11: HTTPSchemes returns the duplicate-free list, sorted ascending, of  *)
(* the schemes of the server URLs that parse; a URL that fails to parse    *)
(* contributes nothing and causes no fault; no servers give the empty      *)
(* list.                                                                   *)
(***************************************************************************)
ParsedSchemes(srvs) ==
    { URLParse(srvs[i].URL).Scheme :
        i \in { k \in 1..Len(srvs) : ~URLParse(srvs[k].URL).err } }

C11_SchemesOfParsedURLs ==
    /\ fault => API.node = "nil"
    /\ ret.op = "HTTPSchemes" => ret.schemes = SortStrings(ParsedSchemes(API.Servers))

(***************************************************************************)
(* C12: UserType(name) returns the first user type named name; if there is *)
(* none, the first result type named name; if there is none either, nil.   *)
(* A user type wins over a result type of the same name whatever their     *)
(* positions, and the lookup leaves the registry unchanged.                *)
(***************************************************************************)
\* The positions of the entries of list that are named name.
Named(list, name) == { i \in 1..Len(list) : list[i].Name = name }

FirstOf(list, name) ==
    list[CHOOSE i \in Named(list, name) : \A j \in Named(list, name) : i <= j]

C12_LookupResult ==
    ret.op = "UserType" =>
        IF Named(Types, ret.name) # {} THEN ret.node = FirstOf(Types, ret.name)
        ELSE IF Named(ResultTypes, ret.name) # {}
             THEN ret.node = FirstOf(ResultTypes, ret.name)
             ELSE ret.node = NilType

C12_UserTypeLookup ==
    /\ []C12_LookupResult
    /\ [][(pc = 0 /\ pc' = 0 /\ ret'.op = "UserType") => registry' = registry]_vars

\* The result type R2 stands first in its list, the user type T3 of the same name
\* stands last in its own, after another user type of that name: T1 is returned.
C12_Witness ==
    /\ ret.op = "UserType" /\ ret.name = "T1"
    /\ Types = <<T1, T3>> /\ ResultTypes = <<R2, R1>>
    /\ ret.node = T1

(***************************************************************************)
(* C13: a Meta Map and its duplicate never alias: after d = m.Dup(), no    *)
(* change made through d (adding or removing a key, replacing a key's      *)
(* value list, overwriting an element of one of d's value lists in place)  *)
(* changes the content of m.                                               *)
(***************************************************************************)
C13_DupNeverAliases == d # 0 => Content(metaMaps[m]) = mAtDup

(***************************************************************************)
(* C14: m.Dup() returns a distinct map instance with the same key set and, *)
(* for each key, the same value list; adding a key to or deleting a key    *)
(* from the duplicate leaves the key set and the values of m unchanged.    *)
(***************************************************************************)
KeySetOpsOnly == \A i \in 1..Len(metaOps) : metaOps[i] \in {"add", "delete"}

C14_DupCopiesKeys ==
    d # 0 =>
        /\ d # m
        /\ metaOps = << >> =>
             /\ DOMAIN metaMaps[d] = DOMAIN metaMaps[m]
             /\ Content(metaMaps[d]) = Content(metaMaps[m])
        /\ KeySetOpsOnly =>
             /\ DOMAIN metaMaps[m] = DOMAIN mAtDup
             /\ Content(metaMaps[m]) = mAtDup

\* The duplicate of {"a": ["1", "2"], "b": ["3"]} after a key was added to it and
\* another deleted from it.
C14_Witness ==
    /\ d # 0
    /\ mAtDup = [k \in {"a", "b"} |-> IF k = "a" THEN <<"1", "2">> ELSE <<"3">>]
    /\ metaOps = <<"add", "delete">>
    /\ DOMAIN metaMaps[d] = {"b", "c"}
    /\ Content(metaMaps[m]) = mAtDup

(***************************************************************************)
(* C15: the HTTP endpoints batch and the HTTP file servers batch are the   *)
(* concatenations of the endpoint lists and of the file server lists of    *)
(* the HTTP services, taken in the order of the HTTP services batch of the *)
(* same walk (the order after the parent sort).                            *)
(***************************************************************************)
RECURSIVE OffsetOf(_, _, _)
\* Number of nodes in the lists field of the services before the i-th.
OffsetOf(svcs, field, i) ==
    IF i <= 1 THEN 0 ELSE OffsetOf(svcs, field, i - 1) + Len(svcs[i - 1][field])

IsConcatOf(b, svcs, field) ==
    /\ Len(b) = OffsetOf(svcs, field, Len(svcs) + 1)
    /\ \A i \in 1..Len(svcs) : \A k \in 1..Len(svcs[i][field]) :
         b[OffsetOf(svcs, field, i) + k] = svcs[i][field][k]

C15_HTTPBatchesFollowSortedOrder ==
    /\ Len(calls) >= 7 => IsConcatOf(Batch(7), Batch(6), "HTTPEndpoints")
    /\ Len(calls) >= 8 => IsConcatOf(Batch(8), Batch(6), "FileServers")

\* The sort has moved H2 before H1 and the endpoints follow that order.
C15_Witness ==
    /\ Len(calls) >= 8
    /\ atEntry.API.HTTP.Services = <<H1, H2>>
    /\ Batch(6) = <<H2, H1>>
    /\ Batch(7) = <<"he2", "he3", "he1">>
    /\ Batch(8) = <<"fs1">>

(***************************************************************************)
(* C16: the parent ordering is not guaranteed for multi-level chains:      *)
(* there is an initial order of a three-level chain of HTTP services for   *)
(* which the HTTP services batch presents a service before its own parent. *)
(* The chain is B, C (parent B), A (parent C) in the order [A, B, C]: the  *)
(* sort leaves it as it is, with A before C.                               *)
(***************************************************************************)
ChainLeafFirst == HTTPOf(<< <<"A", "C">>, <<"B", "">>, <<"C", "B">> >>)

C16_ChainNotResolved ==
    (atEntry.API.HTTP.Services = ChainLeafFirst /\ Len(calls) >= 6) =>
        /\ Batch(6) = ChainLeafFirst
        /\ ~ParentsFirst(Batch(6))

C16_Witness ==
    /\ atEntry.API.HTTP.Services = ChainLeafFirst
    /\ pc = 6
    /\ Batch(6)[1].Name = "A" /\ Batch(6)[3].Name = "C"

(***************************************************************************)
(* C17: the gRPC endpoint flattening corrupts the HTTP endpoints stage:    *)
(* with both HTTP and gRPC endpoints in the registry, the batch the        *)
(* callback received at the HTTP endpoints stage does not consist of       *)
(* exactly the HTTP endpoints in sorted service order once the walk has    *)
(* finished.  Stated here of every finished walk over a registry with both *)
(* kinds of endpoints; C17_HTTPEndpointsIntact shows that no registry at   *)
(* all has a corrupted batch.                                              *)
(***************************************************************************)
\* The batch received at the HTTP endpoints stage, read now: the slice keeps its
\* length and shares the array of endpoints.
ReceivedHTTPEndpoints == SubSeq(backing, 1, Len(Batch(7)))

AllGRPCEndpoints == Concat(Batch(9), "GRPCEndpoints")

C17_HTTPEndpointsCorrupted ==
    (WalkDone /\ Batch(7) # << >> /\ AllGRPCEndpoints # << >>)
        => ReceivedHTTPEndpoints # Concat(Batch(6), "HTTPEndpoints")

(***************************************************************************)
(* C17 as amended: the gRPC endpoint flattening corrupts the gRPC          *)
(* endpoints stage, not the HTTP endpoints stage.  The batch received at   *)
(* the HTTP endpoints stage consists of exactly the HTTP endpoints in      *)
(* sorted service order, also once the walk has finished (append writes    *)
(* behind its last element only); the gRPC endpoints batch is the HTTP     *)
(* endpoints followed by the last gRPC endpoint alone.                     *)
(***************************************************************************)
C17_HTTPEndpointsIntact ==
    /\ Len(calls) >= 7 =>
         /\ ReceivedHTTPEndpoints = Batch(7)
         /\ IsConcatOf(ReceivedHTTPEndpoints, Batch(6), "HTTPEndpoints")
    /\ (Len(calls) = 10 /\ AllGRPCEndpoints # << >>) =>
         Batch(10) = Batch(7) \o <<AllGRPCEndpoints[Len(AllGRPCEndpoints)]>>

\* A finished walk in which append has written a gRPC endpoint into the array of
\* the HTTP endpoints, behind the three endpoints of the batch.
C17_Witness ==
    /\ WalkDone
    /\ Batch(7) = <<"he2", "he3", "he1">>
    /\ Len(backing) = 4 /\ backing[4] \in {"ge1", "ge2", "ge3"}
    /\ Batch(10) # AllGRPCEndpoints

(***************************************************************************)
(* C18: the parent sort of WalkSets only exchanges two services when one   *)
(* is the declared parent of the other: for every initial order of the     *)
(* HTTP (or gRPC) service list the result is a permutation of that list in *)
(* which any two services with no direct parent-child relation between     *)
(* them keep their relative order.                                         *)
(***************************************************************************)
Related(x, y) == x.ParentName = Name(y) \/ y.ParentName = Name(x)

PositionIn(s, svc) == CHOOSE i \in 1..Len(s) : s[i] = svc

KeepsUnrelatedOrder(before, after) ==
    /\ IsPermutationOf(before, after)
    /\ \A i, j \in 1..Len(before) :
         (i < j /\ ~Related(before[i], before[j]))
             => PositionIn(after, before[i]) < PositionIn(after, before[j])

NoMutualParents(s) ==
    \A i, j \in 1..Len(s) : ~(s[i].ParentName = Name(s[j]) /\ s[j].ParentName = Name(s[i]))

RegistrySortable ==
    /\ UniqueNames(API.HTTP.Services) /\ NoMutualParents(API.HTTP.Services)
    /\ UniqueNames(API.GRPC.Services) /\ NoMutualParents(API.GRPC.Services)

NoneRightBeforeParent(s) ==
    \A i \in 1..Len(s) : i < Len(s) => s[i].ParentName # Name(s[i + 1])

\* The k-th batch of this walk is the k-th batch of the walk before.  The API
\* batch holds the pointer r.API: it is the same batch when it is the same node.
SameBatch(k) ==
    /\ calls[k].stage = prevCalls[k].stage
    /\ IF k = 1 THEN Batch(1)[1].node = prevCalls[1].batch[1].node
                ELSE Batch(k) = prevCalls[k].batch

====
